---- MODULE Spec2Model ----
(***************************************************************************)
(* Session handling of the interview summarizer dashboard:                 *)
(*   - MainDashboard.handleRecordingStateChange (start / stop sequence),   *)
(*   - the useTranscription hook (segment buffer, start, pause, resume,    *)
(*     forceStop),                                                         *)
(*   - the collaborators the dashboard talks to (speech service, summary   *)
(*     hook, storage service), whose code is outside src/ and which are    *)
(*     modelled at their boundary.                                         *)
(*                                                                         *)
(* One action is one browser task together with the promise continuations  *)
(* that run in it.  React state set in a task is visible to the next task.  *)
(***************************************************************************)
EXTENDS Integers, Sequences, FiniteSets, TLC

\* ------------------------------------------------------------------ bounds
MaxSessions == 2      \* recording sessions started in one run
MaxIds == 2           \* segment ids the speech service uses in the buffer runs
MaxSessionIds == 1    \* segment ids the speech service uses in the session runs
RequestsPerMinute == 2 \* ceiling of the rate limiter in the pipeline runs (15 in the design)
TicksPerWindow == 3   \* clock steps in one 60 s window
MaxTicks == 4         \* clock steps in one pipeline run
MaxTokensPerMonth == 3 \* monthly budget, in units of one request's token estimate
MaxQueue == 2         \* requests waiting in the scheduler
MaxAttempts == 2      \* Summarizer attempts for one window
MinSegments == 2      \* minSegments of the auto trigger in the pipeline runs (5 in the dashboard)
MinWords == 3         \* minWords of the auto trigger in the pipeline runs (50 in the dashboard)
IntervalTicks == 1    \* intervalSeconds of the auto trigger, in clock steps (30 s in the dashboard)

Sessions == 1..MaxSessions
Ids == 1..MaxIds
Texts == {"hello", "world"}
Timestamps == {0, 1000}

\* A Segment: {id, text, timestamp, isFinal} (confidence and duration are never read).
Segments == [id : Ids, text : Texts, timestamp : Timestamps, isFinal : BOOLEAN]

\* The session handling reads neither the text nor the timestamp of a segment: the
\* segments of a session run differ in id and finality only.
SessionSegments ==
  {s \in Segments : s.id <= MaxSessionIds /\ s.text = "hello" /\ s.timestamp = 1000 * (s.id - 1)}

\* ---------------------------------------------------------- pure helpers
\* Array.prototype.filter is SelectSeq; Array.prototype.join(' ') over the texts of a segment list
RECURSIVE JoinTexts(_)
JoinTexts(s) ==
  IF s = <<>> THEN ""
  ELSE IF Len(s) = 1 THEN s[1].text
       ELSE s[1].text \o " " \o JoinTexts(Tail(s))

IsFinalSeg(s) == s.isFinal

\* onSegmentComplete without its filter on the id
OnSegmentCompleteNoFilter(prev, segment) == Append(prev, segment)

\* onSegmentComplete whose filter drops only final entries of the id
OnSegmentCompleteKeepsInterim(prev, segment) ==
  LET Kept(s) == s.id # segment.id \/ ~s.isFinal
  IN Append(SelectSeq(prev, Kept), segment)

\* onTranscriptUpdate without its filter on isFinal
OnTranscriptUpdateNoFilter(prev, segment) ==
  IF ~segment.isFinal
  THEN Append(prev, segment)
  ELSE prev

\* speechService.onTranscriptUpdate: the setTranscriptSegments updater
OnTranscriptUpdateSegments(prev, segment) ==
  IF ~segment.isFinal
  THEN Append(SelectSeq(prev, IsFinalSeg), segment)
  ELSE prev

\* speechService.onTranscriptUpdate: setCurrentTranscript
OnTranscriptUpdateCurrent(segment) ==
  IF segment.isFinal THEN "" ELSE segment.text

\* speechService.onSegmentComplete: the setTranscriptSegments updater
OnSegmentCompleteSegments(prev, segment) ==
  LET OtherId(s) == s.id # segment.id
  IN Append(SelectSeq(prev, OtherId), segment)

\* The buffer after the speech service delivered one segment: onTranscriptUpdate
\* always, onSegmentComplete when the segment is final
DeliverSegment(prev, segment) ==
  LET afterUpdate == OnTranscriptUpdateSegments(prev, segment)
  IN IF segment.isFinal THEN OnSegmentCompleteSegments(afterUpdate, segment)
     ELSE afterUpdate

\* getAllSegments without its filter on isFinal
GetAllSegmentsUnfiltered(segs) == segs

\* useTranscription.getAllSegments
GetAllSegments(segs) == SelectSeq(segs, IsFinalSeg)

\* getFullTranscript without its filter on isFinal
GetFullTranscriptUnfiltered(segs) == JoinTexts(segs)

\* useTranscription.getFullTranscript
GetFullTranscript(segs) == JoinTexts(SelectSeq(segs, IsFinalSeg))

\* ------------------------------------------------------------------ state
VARIABLES
  \* MainDashboard
  isRecordingSession,   \* useState(false)
  isStoppingRef,        \* useRef(false)
  sessionStartTimeRef,  \* 0 is null, otherwise the number of the session it was set for
  lastNotification,     \* the notification most recently handed to addNotification
  mountPc,              \* position of initializeServices
  startPc,              \* per session: position of the start branch of the handler
  stopPc,               \* position of the stop branch of the handler
  stopSession,          \* the session the current (or last) stop sequence was begun for
  forceStopPc,          \* per session: position of the forceStop call of its stop sequence
  stopTimedOut,         \* bookkeeping: the 3000 ms timer ended the wait of this stop sequence
  stopSnapshot,         \* bookkeeping: the final segments held when the stop sequence began
  \* useTranscription
  speechServiceRef,     \* "null" or "service"
  isInitialized,
  isInitializing,
  isListening,
  isPaused,
  currentTranscript,
  transcriptSegments,
  error,                \* "null" or the message of the last setError
  \* collaborators
  serviceState,         \* the speech service
  currentSummary,       \* useSummary().currentSummary: 0 is null, s a summary made in session s
  summaryArg,           \* the segments handed to the generateSummary call in flight
  summaryCount,         \* generateSummary calls made for session stopSession
  storageInitialized,   \* storageService.isInitialized
  sessionData,          \* the record handed to the saveMeetingSession call in flight
  saveCount,            \* saveMeetingSession calls made for session stopSession
  \* the summarization pipeline inside the summary hook
  now,                  \* the clock, in ms
  tokensPerMonth,       \* configuration: the monthly token budget
  admissions,           \* RateLimiter: the times of the requests admitted so far
  tokensUsed,           \* RateLimiter: the tokens reserved so far this month
  queue,                \* SummarizationScheduler: the requests waiting, head first
  inFlight,             \* SummarizationScheduler: the Summarizer calls not yet settled
  deferredUntil,        \* SummarizationScheduler: the worker waits until this time
  deferred,             \* SummarizationScheduler: the popped request the worker waits with
  lastAttemptAt,        \* auto trigger: time of the last Summarizer attempt (0: session start)
  reservedBy,           \* RequestBudget: per session, the admissions it was granted
  \* effects and timers
  autoInterval,         \* the 5000 ms interval of the auto-summary effect is registered
  autoTimers,           \* pending 1000 ms timeouts of the auto-summary effect
  reInitPc,             \* position of a further call of useTranscription.initialize
  unmountPc,            \* "mounted", "timer" (the 100 ms timeout of the unmount cleanup), "unmounted"
  \* bookkeeping of the model
  sessionNo             \* number of sessions started so far

dashboardVars == <<isRecordingSession, isStoppingRef, sessionStartTimeRef, lastNotification,
                   mountPc, startPc, stopPc, stopSession, forceStopPc,
                   stopSnapshot, stopTimedOut, sessionNo>>
hookVars == <<speechServiceRef, isInitialized, isInitializing, isListening, isPaused,
              currentTranscript, transcriptSegments, error>>
collabVars == <<serviceState, currentSummary, summaryArg, summaryCount, storageInitialized,
                sessionData, saveCount>>
pipelineVars == <<now, tokensPerMonth, admissions, tokensUsed, queue, inFlight, deferredUntil,
                  deferred, lastAttemptAt, reservedBy>>
effectVars == <<autoInterval, autoTimers, reInitPc, unmountPc>>
vars == <<dashboardVars, hookVars, collabVars, pipelineVars, effectVars>>

\* addNotification(message, severity)
Notice(message, severity) == [message |-> message, severity |-> severity]

NoNotice == Notice("", "")
NoData == [session |-> 0, transcript |-> <<>>, summary |-> 0]

NoticeServicesOk == Notice("Services initialized successfully", "success")
NoticeServicesFailed == Notice("Failed to initialize some services", "error")
NoticeStarted == Notice("Recording session started", "success")
NoticeStopWarning == Notice("Warning: Transcription may not have stopped cleanly", "warning")
NoticeSaved == Notice("Session saved successfully", "success")
NoticeSaveFailed == Notice("Failed to save session: Unknown error", "error")

\* The pipeline at rest, with the full monthly budget
PipelineAtRest ==
  /\ now = 0
  /\ tokensPerMonth = MaxTokensPerMonth
  /\ admissions = <<>>
  /\ tokensUsed = 0
  /\ queue = <<>>
  /\ inFlight = <<>>
  /\ deferredUntil = 0
  /\ deferred = <<>>
  /\ lastAttemptAt = 0
  /\ reservedBy = [s \in Sessions |-> 0]

Init ==
  /\ PipelineAtRest
  /\ isRecordingSession = FALSE
  /\ isStoppingRef = FALSE
  /\ sessionStartTimeRef = 0
  /\ lastNotification = NoNotice
  /\ mountPc = "storage"
  /\ startPc = [s \in Sessions |-> "none"]
  /\ stopPc = "idle"
  /\ stopSession = 0
  /\ forceStopPc = [s \in Sessions |-> "none"]
  /\ stopSnapshot = <<>>
  /\ stopTimedOut = FALSE
  /\ speechServiceRef = "null"
  /\ isInitialized = FALSE
  /\ isInitializing = FALSE
  /\ isListening = FALSE
  /\ isPaused = FALSE
  /\ currentTranscript = ""
  /\ transcriptSegments = <<>>
  /\ error = "null"
  /\ serviceState = "none"
  /\ currentSummary = 0
  /\ summaryArg = <<>>
  /\ summaryCount = 0
  /\ storageInitialized = FALSE
  /\ sessionData = NoData
  /\ saveCount = 0
  /\ sessionNo = 0
  /\ autoInterval = FALSE
  /\ autoTimers = 0
  /\ reInitPc = "none"
  /\ unmountPc = "mounted"

\* ------------------------------------------------- mount: initializeServices
\* await storageService.initialize(); searchService.initialize(); the 100 ms delay;
\* audioCapture.initialize()
MountStorageInitialized(ok) ==
  /\ mountPc = "storage"
  /\ IF ok
     THEN /\ storageInitialized' = TRUE
          /\ mountPc' = "services"
          /\ UNCHANGED lastNotification
     ELSE /\ mountPc' = "failed"
          /\ lastNotification' = NoticeServicesFailed
          /\ UNCHANGED storageInitialized
  /\ UNCHANGED <<isRecordingSession, isStoppingRef, sessionStartTimeRef, startPc, stopPc,
                 stopSession, forceStopPc, stopSnapshot, stopTimedOut, sessionNo>>
  /\ UNCHANGED hookVars
  /\ UNCHANGED <<serviceState, currentSummary, summaryArg, summaryCount, sessionData, saveCount>>
  /\ UNCHANGED <<pipelineVars, effectVars>>

\* searchService / audioCapture initialised (or one of them threw), then
\* transcription.initialize() runs up to its await of speechService.initialize()
MountServicesInitialized(ok) ==
  /\ mountPc = "services"
  /\ IF ok
     THEN IF speechServiceRef # "null" \/ isInitializing
          THEN \* initialize() returns at once; servicesInitializedRef = true
               /\ mountPc' = "done"
               /\ lastNotification' = NoticeServicesOk
               /\ UNCHANGED <<isInitializing, error, serviceState>>
          ELSE /\ mountPc' = "transcription"
               /\ isInitializing' = TRUE
               /\ error' = "null"
               /\ serviceState' = "initializing"
               /\ UNCHANGED lastNotification
     ELSE /\ mountPc' = "failed"
          /\ lastNotification' = NoticeServicesFailed
          /\ UNCHANGED <<isInitializing, error, serviceState>>
  /\ UNCHANGED <<isRecordingSession, isStoppingRef, sessionStartTimeRef, startPc, stopPc,
                 stopSession, forceStopPc, stopSnapshot, stopTimedOut, sessionNo>>
  /\ UNCHANGED <<speechServiceRef, isInitialized, isListening, isPaused,
                 currentTranscript, transcriptSegments>>
  /\ UNCHANGED <<currentSummary, summaryArg, summaryCount, storageInitialized, sessionData, saveCount>>
  /\ UNCHANGED <<pipelineVars, effectVars>>

\* useTranscription.initialize after speechService.initialize() settles; the hook
\* catches a failure itself, so initializeServices reports success either way
HookInitializeSettled(success) ==
  /\ mountPc = "transcription"
  /\ IF success
     THEN /\ speechServiceRef' = "service"
          /\ isInitialized' = TRUE
          /\ serviceState' = "idle"
          /\ UNCHANGED error
     ELSE /\ error' = "Failed to initialize speech recognition"
          /\ serviceState' = "none"
          /\ UNCHANGED <<speechServiceRef, isInitialized>>
  /\ isInitializing' = FALSE
  /\ mountPc' = "done"
  /\ lastNotification' = NoticeServicesOk
  /\ UNCHANGED <<isRecordingSession, isStoppingRef, sessionStartTimeRef, startPc, stopPc,
                 stopSession, forceStopPc, stopSnapshot, stopTimedOut, sessionNo>>
  /\ UNCHANGED <<isListening, isPaused, currentTranscript, transcriptSegments>>
  /\ UNCHANGED <<currentSummary, summaryArg, summaryCount, storageInitialized, sessionData, saveCount>>
  /\ UNCHANGED <<pipelineVars, effectVars>>

\* ------------------------------------------------------ segment ingestion
\* The speech service hands a segment to onTranscriptUpdate and, when it is final,
\* to onSegmentComplete.  The callbacks carry no guard on the session state.
ServiceActive == serviceState \in {"listening", "paused", "cleaning"}

ServiceEmitsSegment(segment) ==
  /\ ServiceActive
  /\ currentTranscript' = OnTranscriptUpdateCurrent(segment)
  /\ transcriptSegments' = DeliverSegment(transcriptSegments, segment)
  /\ UNCHANGED dashboardVars
  /\ UNCHANGED <<speechServiceRef, isInitialized, isInitializing, isListening, isPaused, error>>
  /\ UNCHANGED collabVars
  /\ UNCHANGED <<pipelineVars, effectVars>>

\* useTranscription.clearTranscript (the transcript view's clear action)
ClearTranscript ==
  /\ transcriptSegments' = <<>>
  /\ currentTranscript' = ""
  /\ UNCHANGED dashboardVars
  /\ UNCHANGED <<speechServiceRef, isInitialized, isInitializing, isListening, isPaused, error>>
  /\ UNCHANGED collabVars
  /\ UNCHANGED <<pipelineVars, effectVars>>

\* --------------------------------------- handleRecordingStateChange: start
\* state.isRecording && !isRecordingSession
StartGuard == ~isRecordingSession

\* useTranscription.startListening: if (!speechServiceRef.current || isListening) return false
StartListeningRefused == speechServiceRef = "null" \/ isListening

\* The start branch up to its await of transcription.startListening(); when the hook
\* returns false at once, the rest of the branch runs in the same task.
StartRequest ==
  /\ StartGuard
  /\ sessionNo < MaxSessions
  /\ isRecordingSession' = TRUE
  /\ sessionNo' = sessionNo + 1
  /\ sessionStartTimeRef' = sessionNo + 1
  /\ IF StartListeningRefused
     THEN /\ UNCHANGED startPc
          /\ lastNotification' = NoticeStarted
          /\ UNCHANGED error
     ELSE /\ startPc' = [startPc EXCEPT ![sessionNo + 1] = "awaitService"]
          /\ error' = "null"
          /\ UNCHANGED lastNotification
  /\ UNCHANGED <<isStoppingRef, mountPc, stopPc, stopSession, forceStopPc, stopSnapshot,
                 stopTimedOut>>
  /\ UNCHANGED <<speechServiceRef, isInitialized, isInitializing, isListening, isPaused,
                 currentTranscript, transcriptSegments>>
  /\ UNCHANGED collabVars
  /\ UNCHANGED <<pipelineVars, autoTimers, reInitPc, unmountPc>>
  /\ autoInterval' = TRUE            \* the effect runs: setInterval

\* speechService.startListening() settles: the hook resets the buffer on success,
\* the handler reports the start whatever the hook returned
ServiceStartSettled(s, outcome) ==
  /\ startPc[s] = "awaitService"
  /\ startPc' = [startPc EXCEPT ![s] = "none"]
  /\ lastNotification' = NoticeStarted
  /\ CASE outcome = "true" ->
            /\ transcriptSegments' = <<>>
            /\ currentTranscript' = ""
            /\ isListening' = TRUE        \* onStatusChange('listening')
            /\ isPaused' = FALSE
            /\ serviceState' = "listening"
            /\ UNCHANGED error
       [] outcome = "false" ->
            UNCHANGED <<transcriptSegments, currentTranscript, isListening, isPaused,
                        serviceState, error>>
       [] outcome = "throws" ->
            /\ error' = "Failed to start speech recognition"
            /\ UNCHANGED <<transcriptSegments, currentTranscript, isListening, isPaused,
                           serviceState>>
  /\ UNCHANGED <<isRecordingSession, isStoppingRef, sessionStartTimeRef, mountPc, stopPc,
                 stopSession, forceStopPc, stopSnapshot, stopTimedOut, sessionNo>>
  /\ UNCHANGED <<speechServiceRef, isInitialized, isInitializing>>
  /\ UNCHANGED <<currentSummary, summaryArg, summaryCount, storageInitialized, sessionData, saveCount>>
  /\ UNCHANGED <<pipelineVars, effectVars>>

\* the stop guard without the test of isRecordingSession
StopGuardFlagOnly == ~isStoppingRef

\* ---------------------------------------- handleRecordingStateChange: stop
\* !state.isRecording && isRecordingSession && !isStoppingRef.current
StopGuard == isRecordingSession /\ ~isStoppingRef

\* transcriptionRef.current?.transcriptSegments?.length > 0
HasContent(segs) == Len(segs) > 0

\* The record handed to storageService.saveMeetingSession
SessionData(sess, summary) ==
  [session |-> sess, transcript |-> GetAllSegments(transcriptSegments), summary |-> summary]

\* "Save session to storage": initialise the storage first when needed, else build
\* sessionData and call saveMeetingSession (saves: the calls made for sess so far)
ProceedToSave(sess, summary, saves) ==
  IF ~storageInitialized
  THEN /\ stopPc' = "awaitStorage"
       /\ saveCount' = saves
       /\ UNCHANGED sessionData
  ELSE /\ stopPc' = "awaitSave"
       /\ sessionData' = SessionData(sess, summary)
       /\ saveCount' = saves + 1

\* the final summary is requested and the save is started without awaiting it
ProceedToSummaryNoAwait(sess, summaries, saves) ==
  IF HasContent(transcriptSegments)
  THEN /\ summaryArg' = transcriptSegments
       /\ summaryCount' = summaries + 1
       /\ ProceedToSave(sess, currentSummary, saves)
  ELSE /\ summaryCount' = summaries
       /\ UNCHANGED summaryArg
       /\ ProceedToSave(sess, currentSummary, saves)

\* "Generate final summary if we have content"
ProceedToSummary(sess, summaries, saves) ==
  IF HasContent(transcriptSegments)
  THEN /\ stopPc' = "awaitSummary"
       /\ summaryArg' = transcriptSegments
       /\ summaryCount' = summaries + 1
       /\ saveCount' = saves
       /\ UNCHANGED sessionData
  ELSE /\ summaryCount' = summaries
       /\ UNCHANGED summaryArg
       /\ ProceedToSave(sess, currentSummary, saves)

\* a cleanup that clears the interval and leaves the pending timeout
AutoEffectCleanupKeepsTimer ==
  /\ autoInterval' = FALSE
  /\ UNCHANGED autoTimers

\* Cleanup of the auto-summary effect when isRecordingSession changes:
\* clearInterval(interval); clearTimeout(autoSummaryTimeoutRef.current)
AutoEffectCleanup ==
  /\ autoInterval' = FALSE
  /\ autoTimers' = IF autoTimers > 0 THEN autoTimers - 1 ELSE 0

\* checkForSummaryGeneration, every 5000 ms: over a non-empty buffer the timeout the
\* ref holds is cleared and a new 1000 ms timeout is set
CheckForSummaryGeneration ==
  /\ autoInterval
  /\ autoTimers' = IF HasContent(transcriptSegments)
                   THEN (IF autoTimers > 0 THEN autoTimers - 1 ELSE 0) + 1
                   ELSE autoTimers
  /\ UNCHANGED <<autoInterval, reInitPc, unmountPc>>
  /\ UNCHANGED <<dashboardVars, hookVars, collabVars, pipelineVars>>

\* A 1000 ms timeout fires: over a non-empty buffer it calls
\* summaryRef.current.autoGenerateSummary with the buffer and the thresholds
AutoSummaryTimeoutFires ==
  /\ autoTimers > 0
  /\ autoTimers' = autoTimers - 1
  /\ UNCHANGED <<autoInterval, reInitPc, unmountPc>>
  /\ UNCHANGED <<dashboardVars, hookVars, collabVars, pipelineVars>>

\* The stop branch up to its first await.  forceStop returns false at once when the
\* hook holds no service; otherwise it updates the hook state and awaits cleanup().
StopRequest ==
  LET summaries == IF stopSession = sessionNo THEN summaryCount ELSE 0
      saves == IF stopSession = sessionNo THEN saveCount ELSE 0
  IN
  /\ StopGuard
  /\ isStoppingRef' = TRUE
  /\ isRecordingSession' = FALSE
  /\ sessionStartTimeRef' = 0
  /\ stopSession' = sessionNo
  /\ stopSnapshot' = GetAllSegments(transcriptSegments)
  /\ stopTimedOut' = FALSE
  /\ IF speechServiceRef = "null"
     THEN /\ ProceedToSummary(sessionNo, summaries, saves)
          /\ UNCHANGED <<forceStopPc, error, isListening, isPaused, currentTranscript,
                         serviceState>>
     ELSE /\ error' = "null"
          /\ isListening' = FALSE
          /\ isPaused' = FALSE
          /\ currentTranscript' = ""
          /\ forceStopPc' = [forceStopPc EXCEPT ![sessionNo] = "awaitCleanup"]
          /\ serviceState' =
               IF ServiceActive \/ \E s \in Sessions : startPc[s] = "awaitService"
               THEN "cleaning"       \* recognition was running: results may still arrive
               ELSE "cleaningIdle"
          /\ stopPc' = "awaitStop"
          /\ summaryCount' = summaries
          /\ saveCount' = saves
          /\ UNCHANGED <<summaryArg, sessionData>>
  /\ UNCHANGED <<lastNotification, mountPc, startPc, sessionNo>>
  /\ UNCHANGED <<speechServiceRef, isInitialized, isInitializing, transcriptSegments>>
  /\ UNCHANGED <<currentSummary, storageInitialized>>
  /\ UNCHANGED <<pipelineVars, reInitPc, unmountPc>>
  /\ AutoEffectCleanup

\* A call of the handler that matches neither branch returns without effect
RequestIgnored(isRecording) ==
  /\ IF isRecording THEN ~StartGuard ELSE ~StopGuard
  /\ UNCHANGED vars

\* The 3000 ms timer fires and its rejection is not caught: the handler ends
StopTimeoutUncaught ==
  /\ stopPc = "awaitStop"
  /\ stopPc' = "aborted"
  /\ stopTimedOut' = TRUE
  /\ UNCHANGED <<isRecordingSession, isStoppingRef, sessionStartTimeRef, lastNotification,
                 mountPc, startPc, stopSession, forceStopPc, stopSnapshot, sessionNo>>
  /\ UNCHANGED hookVars
  /\ UNCHANGED collabVars
  /\ UNCHANGED <<pipelineVars, effectVars>>

\* The 3000 ms timer of the stop sequence wins the race: warning, then go on
StopTimeout ==
  /\ stopPc = "awaitStop"
  /\ lastNotification' = NoticeStopWarning
  /\ stopTimedOut' = TRUE
  /\ ProceedToSummary(stopSession, summaryCount, saveCount)
  /\ UNCHANGED <<isRecordingSession, isStoppingRef, sessionStartTimeRef, mountPc, startPc,
                 stopSession, forceStopPc, stopSnapshot, sessionNo>>
  /\ UNCHANGED hookVars
  /\ UNCHANGED <<serviceState, currentSummary, storageInitialized>>
  /\ UNCHANGED <<pipelineVars, effectVars>>

\* speechService.cleanup() of session s's forceStop settles.  A rejection is caught by
\* forceStop, which drops the service; the stop sequence goes on if it still waits.
CleanupSettled(s, resolved) ==
  /\ forceStopPc[s] = "awaitCleanup"
  /\ forceStopPc' = [forceStopPc EXCEPT ![s] = "none"]
  /\ IF resolved
     THEN /\ serviceState' = IF serviceState \in {"cleaning", "cleaningIdle"} THEN "cleaned"
                          ELSE serviceState
          /\ UNCHANGED <<error, speechServiceRef>>
     ELSE /\ error' = "Failed to force stop speech recognition"
          /\ speechServiceRef' = "null"
          /\ UNCHANGED serviceState
  /\ IF stopPc = "awaitStop" /\ stopSession = s
     THEN ProceedToSummary(s, summaryCount, saveCount)
     ELSE UNCHANGED <<stopPc, summaryArg, summaryCount, sessionData, saveCount>>
  /\ UNCHANGED <<isRecordingSession, isStoppingRef, sessionStartTimeRef, lastNotification,
                 mountPc, startPc, stopSession, stopSnapshot, stopTimedOut, sessionNo>>
  /\ UNCHANGED <<isInitialized, isInitializing, isListening, isPaused, currentTranscript,
                 transcriptSegments>>
  /\ UNCHANGED <<currentSummary, storageInitialized>>
  /\ UNCHANGED <<pipelineVars, effectVars>>

\* The 5000 ms timer inside forceStop wins its race; it was armed together with the
\* 3000 ms timer of the stop sequence, so that one has fired before
ForceStopTimeout(s) ==
  /\ forceStopPc[s] = "awaitCleanup"
  /\ ~(stopPc = "awaitStop" /\ stopSession = s)
  /\ forceStopPc' = [forceStopPc EXCEPT ![s] = "none"]
  /\ error' = "Failed to force stop speech recognition"
  /\ speechServiceRef' = "null"
  /\ UNCHANGED <<isRecordingSession, isStoppingRef, sessionStartTimeRef, lastNotification,
                 mountPc, startPc, stopPc, stopSession, stopSnapshot, stopTimedOut, sessionNo>>
  /\ UNCHANGED <<isInitialized, isInitializing, isListening, isPaused, currentTranscript,
                 transcriptSegments>>
  /\ UNCHANGED collabVars
  /\ UNCHANGED <<pipelineVars, effectVars>>

\* The final generateSummary call settles.  On success the summary hook stores the
\* new summary; the handler then reads summaryRef.current, which the effect refreshes
\* only after a render, so it sees the new summary (committed) or the one before.
\* A rejection is not caught: the handler ends there.
FinalSummarySettled(outcome, committed) ==
  /\ stopPc = "awaitSummary"
  /\ CASE outcome = "summary" ->
            /\ currentSummary' = stopSession
            /\ ProceedToSave(stopSession,
                             IF committed THEN stopSession ELSE currentSummary, saveCount)
            /\ UNCHANGED stopSnapshot
       [] outcome = "null" ->
            /\ UNCHANGED <<currentSummary, stopSnapshot>>
            /\ ProceedToSave(stopSession, currentSummary, saveCount)
       [] outcome = "rejected" ->
            /\ stopPc' = "aborted"
            /\ stopSnapshot' = <<>>
            /\ UNCHANGED <<currentSummary, sessionData, saveCount>>
  /\ summaryArg' = <<>>
  /\ UNCHANGED <<isRecordingSession, isStoppingRef, sessionStartTimeRef, lastNotification,
                 mountPc, startPc, stopSession, forceStopPc, stopTimedOut, sessionNo>>
  /\ UNCHANGED hookVars
  /\ UNCHANGED <<serviceState, summaryCount, storageInitialized>>
  /\ UNCHANGED <<pipelineVars, effectVars>>

\* storageService.initialize() of the stop sequence settles; a rejection goes to the
\* catch and the finally of the save step
StopStorageInitSettled(ok) ==
  /\ stopPc = "awaitStorage"
  /\ IF ok
     THEN /\ storageInitialized' = TRUE
          /\ stopPc' = "awaitSave"
          /\ sessionData' = SessionData(stopSession, currentSummary)
          /\ saveCount' = saveCount + 1
          /\ UNCHANGED <<lastNotification, isStoppingRef, stopSnapshot, stopTimedOut>>
     ELSE /\ lastNotification' = NoticeSaveFailed
          /\ isStoppingRef' = FALSE
          /\ stopPc' = "idle"
          /\ stopSnapshot' = <<>>
          /\ stopTimedOut' = FALSE
          /\ UNCHANGED <<storageInitialized, sessionData, saveCount>>
  /\ UNCHANGED <<isRecordingSession, sessionStartTimeRef, mountPc, startPc, stopSession,
                 forceStopPc, sessionNo>>
  /\ UNCHANGED hookVars
  /\ UNCHANGED <<serviceState, currentSummary, summaryArg, summaryCount>>
  /\ UNCHANGED <<pipelineVars, effectVars>>

\* saveMeetingSession settles, but a failure skips the finally
SaveSettledNoFinally(ok) ==
  /\ stopPc = "awaitSave"
  /\ lastNotification' = IF ok THEN NoticeSaved ELSE NoticeSaveFailed
  /\ sessionData' = NoData
  /\ stopSnapshot' = <<>>
  /\ stopTimedOut' = FALSE
  /\ isStoppingRef' = IF ok THEN FALSE ELSE isStoppingRef
  /\ stopPc' = "idle"
  /\ UNCHANGED <<isRecordingSession, sessionStartTimeRef, mountPc, startPc, stopSession,
                 forceStopPc, sessionNo>>
  /\ UNCHANGED hookVars
  /\ UNCHANGED <<serviceState, currentSummary, summaryArg, summaryCount, storageInitialized,
                 saveCount>>
  /\ UNCHANGED <<pipelineVars, effectVars>>

\* saveMeetingSession settles: success or failure notice, then the finally
SaveSettled(ok) ==
  /\ stopPc = "awaitSave"
  /\ lastNotification' = IF ok THEN NoticeSaved ELSE NoticeSaveFailed
  /\ sessionData' = NoData
  /\ stopSnapshot' = <<>>
  /\ stopTimedOut' = FALSE
  /\ isStoppingRef' = FALSE
  /\ stopPc' = "idle"
  /\ UNCHANGED <<isRecordingSession, sessionStartTimeRef, mountPc, startPc, stopSession,
                 forceStopPc, sessionNo>>
  /\ UNCHANGED hookVars
  /\ UNCHANGED <<serviceState, currentSummary, summaryArg, summaryCount, storageInitialized,
                 saveCount>>
  /\ UNCHANGED <<pipelineVars, effectVars>>

\* ------------------------------------------------ pause / resume of the hook
\* the pause guard without the test of isListening
PauseRefusedWhenPausedOnly == speechServiceRef = "null" \/ isPaused

\* useTranscription.pauseListening: if (!speechServiceRef.current || !isListening || isPaused) return false
PauseRefused == speechServiceRef = "null" \/ ~isListening \/ isPaused

\* useTranscription.resumeListening: if (!speechServiceRef.current || !isPaused) return false
ResumeRefused == speechServiceRef = "null" \/ ~isPaused

\* useTranscription.pauseListening, past its guard
PauseListening(outcome) ==
  /\ ~PauseRefused
  /\ CASE outcome = "true" ->
            /\ isPaused' = TRUE            \* onStatusChange('paused')
            /\ serviceState' = "paused"
            /\ error' = "null"
       [] outcome = "false" ->
            /\ error' = "null"
            /\ UNCHANGED <<isPaused, serviceState>>
       [] outcome = "throws" ->
            /\ error' = "Failed to pause speech recognition"
            /\ UNCHANGED <<isPaused, serviceState>>
  /\ UNCHANGED dashboardVars
  /\ UNCHANGED <<speechServiceRef, isInitialized, isInitializing, isListening,
                 currentTranscript, transcriptSegments>>
  /\ UNCHANGED <<currentSummary, summaryArg, summaryCount, storageInitialized, sessionData, saveCount>>
  /\ UNCHANGED <<pipelineVars, effectVars>>

\* useTranscription.resumeListening, past its guard
ResumeListening(outcome) ==
  /\ ~ResumeRefused
  /\ CASE outcome = "true" ->
            /\ isListening' = TRUE         \* onStatusChange('listening')
            /\ isPaused' = FALSE
            /\ serviceState' = "listening"
            /\ error' = "null"
       [] outcome = "false" ->
            /\ error' = "null"
            /\ UNCHANGED <<isListening, isPaused, serviceState>>
       [] outcome = "throws" ->
            /\ error' = "Failed to resume speech recognition"
            /\ UNCHANGED <<isListening, isPaused, serviceState>>
  /\ UNCHANGED dashboardVars
  /\ UNCHANGED <<speechServiceRef, isInitialized, isInitializing, currentTranscript,
                 transcriptSegments>>
  /\ UNCHANGED <<currentSummary, summaryArg, summaryCount, storageInitialized, sessionData, saveCount>>
  /\ UNCHANGED <<pipelineVars, effectVars>>

\* A pauseListening or resumeListening call that its guard refuses returns false
\* before any state is set
PauseResumeRefused(isPause) ==
  /\ IF isPause THEN PauseRefused ELSE ResumeRefused
  /\ UNCHANGED vars

\* ------------------------------------------------------------ specification
Outcomes == {"true", "false", "throws"}

Next ==
  \/ \E ok \in BOOLEAN : MountStorageInitialized(ok)
  \/ \E ok \in BOOLEAN : MountServicesInitialized(ok)
  \/ \E success \in BOOLEAN : HookInitializeSettled(success)
  \/ \E segment \in SessionSegments : ServiceEmitsSegment(segment)
  \/ ClearTranscript
  \/ StartRequest
  \/ \E s \in Sessions, outcome \in Outcomes : ServiceStartSettled(s, outcome)
  \/ StopRequest
  \/ \E isRecording \in BOOLEAN : RequestIgnored(isRecording)
  \/ StopTimeout
  \/ \E s \in Sessions, resolved \in BOOLEAN : CleanupSettled(s, resolved)
  \/ \E s \in Sessions : ForceStopTimeout(s)
  \/ \E outcome \in {"summary", "null", "rejected"}, committed \in BOOLEAN :
       FinalSummarySettled(outcome, committed)
  \/ \E ok \in BOOLEAN : StopStorageInitSettled(ok)
  \/ \E ok \in BOOLEAN : SaveSettled(ok)
  \/ \E outcome \in Outcomes : PauseListening(outcome)
  \/ \E outcome \in Outcomes : ResumeListening(outcome)
  \/ \E isPause \in BOOLEAN : PauseResumeRefused(isPause)
  \/ CheckForSummaryGeneration
  \/ AutoSummaryTimeoutFires

Spec == Init /\ [][Next]_vars

\* Timers fire, and the summary hook and the storage service settle every call made
\* to them; the speech service's cleanup may never settle.
FairSpec ==
  /\ Spec
  /\ WF_vars(StopTimeout)
  /\ WF_vars(\E outcome \in {"summary", "null", "rejected"}, committed \in BOOLEAN :
               FinalSummarySettled(outcome, committed))
  /\ WF_vars(\E ok \in BOOLEAN : StopStorageInitSettled(ok))
  /\ WF_vars(\E ok \in BOOLEAN : SaveSettled(ok))

\* ------------------------------------------- the segment buffer on its own
\* A session that is listening (mount succeeded, start succeeded) and in which the
\* speech service delivers any segment; the transcript view may clear the buffer.
\* The session part of a state in which a first session is listening
ListeningSession ==
  /\ isRecordingSession = TRUE
  /\ isStoppingRef = FALSE
  /\ sessionStartTimeRef = 1
  /\ lastNotification = NoticeStarted
  /\ mountPc = "done"
  /\ startPc = [s \in Sessions |-> "none"]
  /\ stopPc = "idle"
  /\ stopSession = 0
  /\ forceStopPc = [s \in Sessions |-> "none"]
  /\ stopSnapshot = <<>>
  /\ stopTimedOut = FALSE
  /\ speechServiceRef = "service"
  /\ isInitialized = TRUE
  /\ isInitializing = FALSE
  /\ isListening = TRUE
  /\ isPaused = FALSE
  /\ currentTranscript = ""
  /\ transcriptSegments = <<>>
  /\ error = "null"
  /\ serviceState = "listening"
  /\ currentSummary = 0
  /\ summaryArg = <<>>
  /\ summaryCount = 0
  /\ storageInitialized = TRUE
  /\ sessionData = NoData
  /\ saveCount = 0
  /\ sessionNo = 1
  /\ autoInterval = TRUE
  /\ autoTimers = 0
  /\ reInitPc = "none"
  /\ unmountPc = "mounted"

BufferInit ==
  /\ PipelineAtRest
  /\ ListeningSession

BufferNext ==
  \/ \E segment \in Segments : ServiceEmitsSegment(segment)
  \/ ClearTranscript

BufferSpec == BufferInit /\ [][BufferNext]_vars

\* ------------------------------------ the summarization pipeline on its own
\* RateLimiter and SummarizationScheduler stand behind useSummary.generateSummary and
\* autoGenerateSummary.  The dashboard reaches them from three places: the auto
\* trigger, handleAIConfiguration and the stop sequence.
WindowMs == 60000
TickMs == WindowMs \div TicksPerWindow
EstimatedTokens == 1

NoticeRateLimitExhausted == Notice("AI service unavailable: monthly token budget exhausted", "error")
NoticeSummaryDropped == Notice("Summary generation failed", "warning")

\* the admissions of the minute bucket t lies in (a window reset at minute boundaries)
AdmissionsInBucket(times, t) ==
  LET SameBucket(a) == a \div WindowMs = t \div WindowMs
  IN SelectSeq(times, SameBucket)

\* RateLimiter: the admissions inside the 60 s window that ends at t
AdmissionsInWindow(times, t) ==
  LET Recent(a) == a <= t /\ t - a < WindowMs
  IN SelectSeq(times, Recent)

\* admit that never looks at the monthly budget
AdmitIgnoringBudget(times, used, budget, t, estimatedTokens) ==
  LET recent == AdmissionsInWindow(times, t)
  IN IF Len(recent) >= RequestsPerMinute
     THEN [kind |-> "Deferred",
           retryAfterMs |-> recent[Len(recent) - RequestsPerMinute + 1] + WindowMs - t]
     ELSE [kind |-> "Admitted", retryAfterMs |-> 0]

\* RateLimiter.admit(estimatedTokens): Rejected when the monthly budget cannot take
\* the estimate, Deferred until the next slot of the window frees, else Admitted
Admit(times, used, budget, t, estimatedTokens) ==
  LET recent == AdmissionsInWindow(times, t)
  IN IF used + estimatedTokens > budget
     THEN [kind |-> "Rejected", retryAfterMs |-> 0]
     ELSE IF Len(recent) >= RequestsPerMinute
          THEN [kind |-> "Deferred",
                retryAfterMs |-> recent[Len(recent) - RequestsPerMinute + 1] + WindowMs - t]
          ELSE [kind |-> "Admitted", retryAfterMs |-> 0]

\* A request as enqueue appends it: its window is built when it is first executed
Request(priority) == [priority |-> priority, attempts |-> 0, window |-> <<>>]

\* no de-duplication of non-final requests
AutoPendingNever == FALSE

\* a non-final request is queued, held by the waiting worker or in flight
AutoPending ==
  \/ \E i \in 1..Len(queue) : queue[i].priority = "auto"
  \/ \E i \in 1..Len(deferred) : deferred[i].priority = "auto"
  \/ \E i \in 1..Len(inFlight) : inFlight[i].priority = "auto"

\* a worker that does not wait for the call in flight
WorkerIdleAlways == TRUE

\* the single worker takes the next request only when no Summarizer call is in flight
WorkerIdle == inFlight = <<>>

\* enqueue that appends a final request like any other
EnqueueAtTail(priority) ==
  /\ HasContent(transcriptSegments)
  /\ priority = "auto" => isRecordingSession
  /\ IF priority = "final"
     THEN /\ Len(queue) < MaxQueue
          /\ queue' = Append(queue, Request("final"))
     ELSE IF AutoPending
          THEN UNCHANGED queue
          ELSE /\ Len(queue) < MaxQueue
               /\ queue' = Append(queue, Request("auto"))
  /\ UNCHANGED <<now, tokensPerMonth, admissions, tokensUsed, inFlight, deferredUntil,
                 deferred, lastAttemptAt, reservedBy>>
  /\ UNCHANGED <<dashboardVars, hookVars, collabVars, effectVars>>

\* SummarizationScheduler.enqueue as the dashboard calls it: generateSummary (final,
\* from handleAIConfiguration or the stop sequence) goes to the front, the auto
\* trigger's autoGenerateSummary is a no-op while a non-final request is pending
Enqueue(priority) ==
  /\ HasContent(transcriptSegments)
  /\ priority = "auto" => isRecordingSession
  /\ IF priority = "final"
     THEN /\ Len(queue) < MaxQueue
          /\ queue' = <<Request("final")>> \o queue
     ELSE IF AutoPending
          THEN UNCHANGED queue
          ELSE /\ Len(queue) < MaxQueue
               /\ queue' = Append(queue, Request("auto"))
  /\ UNCHANGED <<now, tokensPerMonth, admissions, tokensUsed, inFlight, deferredUntil,
                 deferred, lastAttemptAt, reservedBy>>
  /\ UNCHANGED <<dashboardVars, hookVars, collabVars, effectVars>>

\* text.split(/\s+/).length of a segment text
WordsIn(text) ==
  CASE text = "hello" -> 1
    [] text = "world" -> 1
    [] text = "one two three" -> 3

\* TranscriptBuffer.wordCount over a list of final segments
RECURSIVE WordCount(_)
WordCount(segs) ==
  IF segs = <<>> THEN 0 ELSE WordsIn(Head(segs).text) + WordCount(Tail(segs))

IntervalMs == IntervalTicks * TickMs

\* The configuration the auto trigger hands to autoGenerateSummary
AutoConfigs ==
  [minSegments : {MinSegments}, minWords : {MinWords}, intervalSeconds : {IntervalMs \div 1000},
   enableAutoGeneration : BOOLEAN]

\* thresholds of which the two content thresholds are alternatives
AutoThresholdsEither(config) ==
  /\ config.enableAutoGeneration
  /\ \/ Len(GetAllSegments(transcriptSegments)) >= config.minSegments
     \/ WordCount(GetAllSegments(transcriptSegments)) >= config.minWords
  /\ now - lastAttemptAt >= config.intervalSeconds * 1000

\* autoGenerateSummary: auto generation is enabled, the buffer holds enough final
\* segments and enough words, and the interval since the last attempt has elapsed
AutoThresholdsMet(config) ==
  /\ config.enableAutoGeneration
  /\ Len(GetAllSegments(transcriptSegments)) >= config.minSegments
  /\ WordCount(GetAllSegments(transcriptSegments)) >= config.minWords
  /\ now - lastAttemptAt >= config.intervalSeconds * 1000

\* The auto trigger of the dashboard fires during a session with a non-empty
\* buffer; autoGenerateSummary enqueues a non-final request when the thresholds hold
AutoGenerateSummary(config) ==
  IF AutoThresholdsMet(config)
  THEN Enqueue("auto")
  ELSE /\ isRecordingSession
       /\ HasContent(transcriptSegments)
       /\ UNCHANGED vars

\* a deferral that drops the request with a notice
DeferDrops(r, rest, retryAfterMs) ==
  /\ queue' = rest
  /\ deferred' = <<>>
  /\ lastNotification' = NoticeRateLimitExhausted
  /\ UNCHANGED deferredUntil

\* Deferred: the popped request r is kept by the worker, which waits retryAfterMs
Defer(r, rest, retryAfterMs) ==
  /\ queue' = rest
  /\ deferred' = <<r>>
  /\ deferredUntil' = now + retryAfterMs
  /\ UNCHANGED lastNotification

\* The processing step for the popped request r, rest being the queue behind it:
\* ask the RateLimiter, then drop, wait or invoke the Summarizer
Process(r, rest) ==
  LET d == Admit(admissions, tokensUsed, tokensPerMonth, now, EstimatedTokens)
  IN CASE d.kind = "Rejected" ->
            /\ queue' = rest
            /\ deferred' = <<>>
            /\ lastNotification' = NoticeRateLimitExhausted
            /\ UNCHANGED <<admissions, tokensUsed, inFlight, deferredUntil, lastAttemptAt,
                           reservedBy>>
       [] d.kind = "Deferred" ->
            /\ Defer(r, rest, d.retryAfterMs)
            /\ UNCHANGED <<admissions, tokensUsed, inFlight, lastAttemptAt, reservedBy>>
       [] d.kind = "Admitted" ->
            /\ queue' = rest
            /\ deferred' = <<>>
            /\ admissions' = Append(admissions, now)
            /\ tokensUsed' = tokensUsed + EstimatedTokens
            /\ lastAttemptAt' = now
            /\ reservedBy' = [reservedBy EXCEPT ![sessionNo] = @ + 1]
            /\ inFlight' = Append(inFlight,
                 [r EXCEPT !.window = IF r.attempts = 0
                                      THEN GetAllSegments(transcriptSegments)
                                      ELSE r.window])
            /\ UNCHANGED <<lastNotification, deferredUntil>>

\* The worker pops the head request when it is idle and holds no deferred request
WorkerStart ==
  /\ queue # <<>>
  /\ WorkerIdle
  /\ deferred = <<>>
  /\ Process(Head(queue), Tail(queue))
  /\ UNCHANGED <<now, tokensPerMonth>>
  /\ UNCHANGED <<isRecordingSession, isStoppingRef, sessionStartTimeRef, mountPc, startPc,
                 stopPc, stopSession, forceStopPc, stopSnapshot, stopTimedOut, sessionNo>>
  /\ UNCHANGED <<hookVars, collabVars, effectVars>>

\* The delay of a deferral has passed: the deferred request is put back at the
\* front and the worker processes it at once, ahead of whatever was enqueued since
WorkerRetryDeferred ==
  /\ deferred # <<>>
  /\ WorkerIdle
  /\ now >= deferredUntil
  /\ Process(deferred[1], queue)
  /\ UNCHANGED <<now, tokensPerMonth>>
  /\ UNCHANGED <<isRecordingSession, isStoppingRef, sessionStartTimeRef, mountPc, startPc,
                 stopPc, stopSession, forceStopPc, stopSnapshot, stopTimedOut, sessionNo>>
  /\ UNCHANGED <<hookVars, collabVars, effectVars>>

\* an attempt ceiling that is never reached
AttemptsExhaustedNever(r) == FALSE

\* the failed attempt of r was the last one the attempt ceiling allows
AttemptsExhausted(r) == r.attempts + 1 >= MaxAttempts

\* The Summarizer call i settles: on success the summary is stored, on failure the
\* window is retried up to the attempt ceiling and then dropped with a notice
SummarizerSettled(i, ok) ==
  /\ i \in 1..Len(inFlight)
  /\ inFlight' = SubSeq(inFlight, 1, i - 1) \o SubSeq(inFlight, i + 1, Len(inFlight))
  /\ IF ok
     THEN /\ currentSummary' = sessionNo
          /\ UNCHANGED <<queue, lastNotification>>
     ELSE /\ UNCHANGED currentSummary
          /\ IF AttemptsExhausted(inFlight[i])
             THEN /\ lastNotification' = NoticeSummaryDropped
                  /\ UNCHANGED queue
             ELSE /\ queue' = <<[inFlight[i] EXCEPT !.attempts = @ + 1]>> \o queue
                  /\ UNCHANGED lastNotification
  /\ UNCHANGED <<now, tokensPerMonth, admissions, tokensUsed, deferredUntil, deferred,
                 lastAttemptAt, reservedBy>>
  /\ UNCHANGED <<isRecordingSession, isStoppingRef, sessionStartTimeRef, mountPc, startPc,
                 stopPc, stopSession, forceStopPc, stopSnapshot, stopTimedOut, sessionNo>>
  /\ UNCHANGED hookVars
  /\ UNCHANGED <<serviceState, summaryArg, summaryCount, storageInitialized, sessionData,
                 saveCount>>
  /\ UNCHANGED effectVars

\* Time passes
Tick ==
  /\ now < MaxTicks * TickMs
  /\ now' = now + TickMs
  /\ UNCHANGED <<tokensPerMonth, admissions, tokensUsed, queue, inFlight, deferredUntil,
                 deferred, lastAttemptAt, reservedBy>>
  /\ UNCHANGED <<dashboardVars, hookVars, collabVars, effectVars>>

\* A listening session, the pipeline at rest, the monthly budget full or zero
PipelineInit ==
  /\ ListeningSession
  /\ now = 0
  /\ tokensPerMonth \in {0, MaxTokensPerMonth}
  /\ admissions = <<>>
  /\ tokensUsed = 0
  /\ queue = <<>>
  /\ inFlight = <<>>
  /\ deferredUntil = 0
  /\ deferred = <<>>
  /\ lastAttemptAt = 0
  /\ reservedBy = [s \in Sessions |-> 0]

\* The pipeline reads the finality and the word count of a segment: its runs use
\* every id with a text of one word, and final segments of three words beyond the
\* first id
PipelineTexts == {"hello", "one two three"}

PipelineSegments ==
  {s \in [id : Ids, text : PipelineTexts, timestamp : Timestamps, isFinal : BOOLEAN] :
     /\ s.timestamp = 1000 * (s.id - 1)
     /\ s.text # "hello" => (s.isFinal /\ s.id > 1)}

PipelineNext ==
  \/ \E segment \in PipelineSegments : ServiceEmitsSegment(segment)
  \/ \E config \in AutoConfigs : AutoGenerateSummary(config)
  \/ Enqueue("final")
  \/ WorkerStart
  \/ WorkerRetryDeferred
  \/ \E i \in 1..MaxQueue, ok \in BOOLEAN : SummarizerSettled(i, ok)
  \/ Tick

PipelineSpec == PipelineInit /\ [][PipelineNext]_vars

\* Time passes, and the timer the waiting worker set for a deferral fires
FairPipelineSpec == PipelineSpec /\ WF_vars(Tick) /\ WF_vars(WorkerRetryDeferred)

\* ------------------------------------------ the life of the transcription hook
\* A further call of useTranscription.initialize.  Its guard reads the ref and the
\* isInitializing of the render its closure was made in: a call issued before React
\* has rendered the first call's setIsInitializing(true) still reads false.
InitializeAgain(rendered) ==
  /\ mountPc \in {"transcription", "done"}
  /\ reInitPc = "none"
  /\ IF speechServiceRef # "null" \/ (rendered /\ isInitializing)
     THEN UNCHANGED <<reInitPc, isInitializing, error>>
     ELSE /\ reInitPc' = "awaitService"      \* new SpeechService(), await initialize()
          /\ isInitializing' = TRUE
          /\ error' = "null"
  /\ UNCHANGED <<autoInterval, autoTimers, unmountPc>>
  /\ UNCHANGED dashboardVars
  /\ UNCHANGED <<speechServiceRef, isInitialized, isListening, isPaused, currentTranscript,
                 transcriptSegments>>
  /\ UNCHANGED <<collabVars, pipelineVars>>

\* speechService.initialize() of the further call settles
ReInitializeSettled(success) ==
  /\ reInitPc = "awaitService"
  /\ reInitPc' = "none"
  /\ IF success
     THEN /\ speechServiceRef' = "service"
          /\ isInitialized' = TRUE
          /\ serviceState' = IF serviceState \in {"none", "initializing"} THEN "idle"
                             ELSE serviceState
          /\ UNCHANGED error
     ELSE /\ error' = "Failed to initialize speech recognition"
          /\ UNCHANGED <<speechServiceRef, isInitialized, serviceState>>
  /\ isInitializing' = FALSE
  /\ UNCHANGED <<autoInterval, autoTimers, unmountPc>>
  /\ UNCHANGED dashboardVars
  /\ UNCHANGED <<isListening, isPaused, currentTranscript, transcriptSegments>>
  /\ UNCHANGED <<currentSummary, summaryArg, summaryCount, storageInitialized, sessionData,
                 saveCount>>
  /\ UNCHANGED pipelineVars

\* The cleanup of the hook's unmount effect: with a service in the ref it calls
\* stopListening(), sets the 100 ms timeout unless that call threw, and in its
\* finally sets the ref to null; the effects of the dashboard are cleaned up too
HookUnmount(throws) ==
  /\ unmountPc = "mounted"
  /\ IF speechServiceRef # "null"
     THEN /\ speechServiceRef' = "null"
          /\ IF throws
             THEN unmountPc' = "unmounted" /\ UNCHANGED serviceState
             ELSE unmountPc' = "timer" /\ serviceState' = "stopped"
     ELSE /\ unmountPc' = "unmounted"
          /\ UNCHANGED <<speechServiceRef, serviceState>>
  /\ AutoEffectCleanup
  /\ UNCHANGED reInitPc
  /\ UNCHANGED dashboardVars
  /\ UNCHANGED <<isInitialized, isInitializing, isListening, isPaused, currentTranscript,
                 transcriptSegments, error>>
  /\ UNCHANGED <<currentSummary, summaryArg, summaryCount, storageInitialized, sessionData,
                 saveCount>>
  /\ UNCHANGED pipelineVars

\* The 100 ms timeout of the unmount cleanup fires:
\* if (speechServiceRef.current) speechServiceRef.current.cleanup()
UnmountTimerFires ==
  /\ unmountPc = "timer"
  /\ unmountPc' = "unmounted"
  /\ serviceState' = IF speechServiceRef # "null" THEN "cleaning" ELSE serviceState
  /\ UNCHANGED <<autoInterval, autoTimers, reInitPc>>
  /\ UNCHANGED dashboardVars
  /\ UNCHANGED hookVars
  /\ UNCHANGED <<currentSummary, summaryArg, summaryCount, storageInitialized, sessionData,
                 saveCount>>
  /\ UNCHANGED pipelineVars

\* The hook from its mount to its unmount; once unmounted, only the awaited
\* initializations and the timeout still run
HookNext ==
  \/ unmountPc = "mounted" /\ \E ok \in BOOLEAN : MountStorageInitialized(ok)
  \/ unmountPc = "mounted" /\ \E ok \in BOOLEAN : MountServicesInitialized(ok)
  \/ \E success \in BOOLEAN : HookInitializeSettled(success)
  \/ unmountPc = "mounted" /\ \E rendered \in BOOLEAN : InitializeAgain(rendered)
  \/ \E success \in BOOLEAN : ReInitializeSettled(success)
  \/ unmountPc = "mounted" /\ StartRequest
  \/ unmountPc = "mounted" /\ \E s \in Sessions, outcome \in Outcomes : ServiceStartSettled(s, outcome)
  \/ unmountPc = "mounted" /\ \E segment \in SessionSegments : ServiceEmitsSegment(segment)
  \/ \E throws \in BOOLEAN : HookUnmount(throws)
  \/ UnmountTimerFires

HookSpec == Init /\ [][HookNext]_vars

\* Timers fire
FairHookSpec == HookSpec /\ WF_vars(UnmountTimerFires)

\* --------------------------------- the hook under the service's status callbacks
\* speechService.onStatusChange(status), delivered whenever the service that was
\* set up by initialize reports a status
ServiceStatusChange(status) ==
  /\ isInitialized
  /\ CASE status = "listening" -> isListening' = TRUE /\ isPaused' = FALSE
       [] status = "paused" -> isPaused' = TRUE /\ UNCHANGED isListening
       [] status = "stopped" -> isListening' = FALSE /\ isPaused' = FALSE
       [] status = "error" -> isListening' = FALSE /\ isPaused' = FALSE
  /\ UNCHANGED dashboardVars
  /\ UNCHANGED <<speechServiceRef, isInitialized, isInitializing, currentTranscript,
                 transcriptSegments, error>>
  /\ UNCHANGED collabVars
  /\ UNCHANGED <<pipelineVars, effectVars>>

\* useTranscription.stopListening: the hook state is forced whether or not the
\* service's stopListening throws
StopListening(throws) ==
  /\ speechServiceRef # "null"
  /\ error' = IF throws THEN "Failed to stop speech recognition" ELSE "null"
  /\ isListening' = FALSE
  /\ isPaused' = FALSE
  /\ currentTranscript' = ""
  /\ serviceState' = IF throws THEN serviceState ELSE "stopped"
  /\ UNCHANGED dashboardVars
  /\ UNCHANGED <<speechServiceRef, isInitialized, isInitializing, transcriptSegments>>
  /\ UNCHANGED <<currentSummary, summaryArg, summaryCount, storageInitialized, sessionData,
                 saveCount>>
  /\ UNCHANGED <<pipelineVars, effectVars>>

StatusInit ==
  /\ PipelineAtRest
  /\ ListeningSession

StatusNext ==
  \/ \E status \in {"listening", "paused", "stopped", "error"} : ServiceStatusChange(status)
  \/ \E throws \in BOOLEAN : StopListening(throws)
  \/ StopRequest
  \/ \E segment \in SessionSegments : ServiceEmitsSegment(segment)

StatusSpec == StatusInit /\ [][StatusNext]_vars

\* ------------------------------------- the RequestBudget under two sessions
\* the tokens a session sees reserved when each session keeps its own account
OwnReserved(s) == reservedBy[s] * EstimatedTokens

\* the tokens reserved against the monthly budget, whichever session asks
SharedReserved(s) == tokensUsed

\* The scheduler of session s asks the one RateLimiter of the process; admit answers
\* and reserves in one step
SessionAdmit(s) ==
  LET d == Admit(admissions, SharedReserved(s), tokensPerMonth, now, EstimatedTokens)
  IN /\ IF d.kind = "Admitted"
        THEN /\ admissions' = Append(admissions, now)
             /\ tokensUsed' = tokensUsed + EstimatedTokens
             /\ reservedBy' = [reservedBy EXCEPT ![s] = @ + 1]
        ELSE UNCHANGED <<admissions, tokensUsed, reservedBy>>
     /\ UNCHANGED <<now, tokensPerMonth, queue, inFlight, deferredUntil, deferred, lastAttemptAt>>
     /\ UNCHANGED <<dashboardVars, hookVars, collabVars, effectVars>>

BudgetInit ==
  /\ PipelineAtRest
  /\ ListeningSession

BudgetNext ==
  \/ \E s \in Sessions : SessionAdmit(s)
  \/ Tick

BudgetSpec == BudgetInit /\ [][BudgetNext]_vars

\* ================================================================ properties
FinalSegments == GetAllSegments(transcriptSegments)
EntriesOf(segs, id) == {i \in 1..Len(segs) : segs[i].id = id}
NoDuplicateIds(segs) == \A i, j \in 1..Len(segs) : segs[i].id = segs[j].id => i = j
WithoutId(segs, id) == LET Other(s) == s.id # id IN SelectSeq(segs, Other)

\* C1: a stop request made while the stop sequence of the session is in flight, or
\* after it finished, is ignored, and at most one saveMeetingSession call is made
\* for a session.
C1_StopTwiceSavesOnce ==
  /\ saveCount <= 1
  /\ (sessionNo > 0 /\ stopSession = sessionNo) => ~StopGuard

\* C1: the stop sequence of the current session has run to its end with one save,
\* and a further stop request is ignored
C1_Witness ==
  /\ sessionNo > 0 /\ stopSession = sessionNo
  /\ stopPc = "idle" /\ saveCount = 1
  /\ ~StopGuard

\* C2: a stop sequence that went on when the stop deadline ended the wait for a hung
\* cleanup is never abandoned: it goes on to the save and the end of the sequence.
C2_DeadlineStopCloses == stopTimedOut => stopPc # "aborted"

\* C3: the final segments are ordered by non-decreasing timestamp
C3_FinalsSortedByTimestamp ==
  \A i, j \in 1..Len(FinalSegments) :
    i < j => FinalSegments[i].timestamp <= FinalSegments[j].timestamp

\* C4: the final segments hold no two entries of one id, and a final arrival for an
\* id leaves exactly that arrival as the entry of the id (the latest final text wins)
\* and the entries of the other ids as they were; an interim arrival changes no final.
C4_NoDuplicateLatestWins ==
  /\ NoDuplicateIds(FinalSegments)
  /\ \A segment \in Segments :
       LET after == GetAllSegments(DeliverSegment(transcriptSegments, segment))
       IN IF segment.isFinal
          THEN /\ NoDuplicateIds(after)
               /\ \E i \in 1..Len(after) : after[i] = segment
               /\ WithoutId(after, segment.id) = WithoutId(FinalSegments, segment.id)
          ELSE after = FinalSegments

\* C4: two final segments are held, and one of them is re-emitted with another text
C4_Witness ==
  /\ Len(FinalSegments) = 2
  /\ \E segment \in Segments :
       /\ segment.isFinal
       /\ \E i \in 1..2 : /\ FinalSegments[i].id = segment.id
                          /\ FinalSegments[i].text # segment.text
       /\ Len(GetAllSegments(DeliverSegment(transcriptSegments, segment))) = 2

\* The texts of the final entries of a buffer, one by one and in order, joined by a space
RECURSIVE FinalTextFrom(_, _)
FinalTextFrom(segs, i) ==
  IF i > Len(segs) THEN ""
  ELSE LET rest == FinalTextFrom(segs, i + 1)
       IN IF ~segs[i].isFinal THEN rest
          ELSE IF rest = "" THEN segs[i].text
               ELSE segs[i].text \o " " \o rest

\* C5: getFullTranscript is the space-separated concatenation of the texts of the
\* final segments only; for a buffer without a final segment it is the empty string.
C5_FullTranscriptFinalOnly ==
  /\ GetFullTranscript(transcriptSegments) = FinalTextFrom(transcriptSegments, 1)
  /\ (FinalSegments = <<>>) => GetFullTranscript(transcriptSegments) = ""

\* C5: the buffer holds a final segment and an interim one with another text
C5_Witness ==
  /\ Len(transcriptSegments) = 2
  /\ transcriptSegments[1].isFinal /\ ~transcriptSegments[2].isFinal
  /\ transcriptSegments[1].text # transcriptSegments[2].text
  /\ GetFullTranscript(transcriptSegments) = transcriptSegments[1].text

\* C6: when the buffer holds segment X as interim and X arrives as final with a
\* corrected text, the buffer then holds exactly one entry for X: the final one with
\* the corrected text.
C6_InterimThenFinal ==
  \A i \in 1..Len(transcriptSegments) :
    \A corrected \in Texts :
      LET x == transcriptSegments[i]
          final == [x EXCEPT !.isFinal = TRUE, !.text = corrected]
          after == DeliverSegment(transcriptSegments, final)
      IN (~x.isFinal /\ corrected # x.text) =>
           /\ Cardinality(EntriesOf(after, x.id)) = 1
           /\ \A k \in EntriesOf(after, x.id) : after[k] = final

\* C6: X is held as interim next to a final segment of another id, and its final
\* arrival with the corrected text leaves two entries
C6_Witness ==
  /\ Len(transcriptSegments) = 2
  /\ transcriptSegments[1].isFinal /\ ~transcriptSegments[2].isFinal
  /\ transcriptSegments[1].id # transcriptSegments[2].id
  /\ transcriptSegments[2].text = "hello"
  /\ Len(DeliverSegment(transcriptSegments,
           [transcriptSegments[2] EXCEPT !.isFinal = TRUE, !.text = "world"])) = 2

\* C7: when the session held k >= 1 final segments at its stop request, the record
\* handed to saveMeetingSession follows exactly one generateSummary call, lists
\* exactly those k segments and carries the current summary.
C7_StopSavesFinalsAndSummary ==
  (stopPc = "awaitSave" /\ Len(stopSnapshot) >= 1) =>
    /\ summaryCount = 1
    /\ sessionData.transcript = stopSnapshot
    /\ sessionData.summary = currentSummary

\* C8: when the final generateSummary call is rejected, the stop sequence still saves
\* the record and ends with the stopping flag cleared.
C8_RejectedSummaryStillSaves ==
  stopPc = "aborted" => (saveCount = 1 /\ ~isStoppingRef)

\* C9: the step in which the save of the stop sequence fails puts up the error notice
\* (not the success notice), makes no further save call, ends the stop sequence with
\* the stopping flag cleared, and opens no session.
C9_SaveFailureEndsStopped ==
  [][(stopPc \in {"awaitStorage", "awaitSave"} /\ stopPc' = "idle"
        /\ lastNotification' # NoticeSaved) =>
       /\ lastNotification' = NoticeSaveFailed
       /\ NoticeSaveFailed.severity = "error"
       /\ NoticeSaveFailed # NoticeSaved
       /\ saveCount' = saveCount
       /\ isStoppingRef' = FALSE
       /\ isRecordingSession' = isRecordingSession
       /\ sessionNo' = sessionNo]_vars

\* C9: a stop sequence ended on a failed save: error notice up, one save call made,
\* not recording, not stopping
C9_Witness ==
  /\ lastNotification = NoticeSaveFailed
  /\ stopPc = "idle" /\ saveCount = 1
  /\ ~isRecordingSession /\ ~isStoppingRef

\* C10: a start request made while a stop sequence is in flight takes no effect: it
\* opens no session.
C10_StartOnlyWhenClosed ==
  [][isStoppingRef =>
       /\ isRecordingSession' = isRecordingSession
       /\ sessionNo' = sessionNo]_vars

\* The session is Listening: recording, the hook listening and not paused, no stop
\* sequence in flight
SessionListening == isRecordingSession /\ ~isStoppingRef /\ isListening /\ ~isPaused

\* C11: a segment delivered while the session is not Listening is dropped: outside
\* Listening the buffer changes only by being emptied.
C11_IngestOnlyWhileListening ==
  [][(~SessionListening /\ transcriptSegments' # transcriptSegments) =>
       transcriptSegments' = <<>>]_vars

\* C12: a pauseListening call takes effect only when the hook is listening and not
\* paused, a resumeListening call only when it is paused; from any other state the
\* call changes nothing; a call that takes effect moves between listening and paused
\* only on the service's success and leaves the buffer as it was.
C12_PauseResumeToggle ==
  [][/\ \A outcome \in Outcomes :
          PauseListening(outcome) =>
            IF isListening /\ ~isPaused
            THEN /\ transcriptSegments' = transcriptSegments
                 /\ isListening' = isListening
                 /\ isPaused' = (outcome = "true")
            ELSE UNCHANGED vars
     /\ \A outcome \in Outcomes :
          ResumeListening(outcome) =>
            IF isPaused
            THEN /\ transcriptSegments' = transcriptSegments
                 /\ isPaused' = (outcome # "true")
                 /\ isListening'
            ELSE UNCHANGED vars
     /\ \A isPause \in BOOLEAN : PauseResumeRefused(isPause) => UNCHANGED vars]_vars

\* C12: the hook is paused with a segment in the buffer
C12_Witness == isListening /\ isPaused /\ transcriptSegments # <<>>

\* C17: the segments handed to a generateSummary call are final segments only
C17_SummaryRequestFinalOnly ==
  \A i \in 1..Len(summaryArg) : summaryArg[i].isFinal

\* C18: the transcript of the record handed to saveMeetingSession holds final
\* segments only
C18_RecordFinalOnly ==
  \A i \in 1..Len(sessionData.transcript) : sessionData.transcript[i].isFinal

\* C18: a save is in flight whose record holds a segment, while the buffer holds an
\* interim segment next to the final one
C18_Witness ==
  /\ stopPc = "awaitSave"
  /\ Len(sessionData.transcript) = 1
  /\ Len(transcriptSegments) = 2
  /\ ~transcriptSegments[2].isFinal

\* C19: a stop sequence that waits for its final generateSummary call comes to its
\* end (record handed to storage, stopping flag cleared)
C19_StopEndsAfterSummaryCall == (stopPc = "awaitSummary") ~> (stopPc = "idle")

\* C20: however the wait for forceStop ends (clean, false after a caught cleanup
\* failure, or the stop deadline), the stop sequence goes on to the same next step,
\* decided by the buffer and the storage alone, with the stopping flag set and
\* nothing reported but the warning.
C20_StopFailureSwallowed ==
  [][(stopPc = "awaitStop" /\ stopPc' # "awaitStop") =>
       /\ stopPc' = IF HasContent(transcriptSegments) THEN "awaitSummary"
                    ELSE IF ~storageInitialized THEN "awaitStorage" ELSE "awaitSave"
       /\ isStoppingRef'
       /\ isRecordingSession' = isRecordingSession
       /\ \/ lastNotification' = lastNotification
          \/ lastNotification' = NoticeStopWarning /\ NoticeStopWarning.severity = "warning"]_vars

\* C20: the stop deadline ended the wait, the warning is up and the record is on its
\* way to storage
C20_Witness ==
  /\ stopTimedOut
  /\ lastNotification = NoticeStopWarning
  /\ stopPc = "awaitSave"

\* The number of admissions in the 60 s window that ends at t, counted one by one
CountInWindow(t) ==
  Cardinality({j \in 1..Len(admissions) : admissions[j] <= t /\ t - admissions[j] < WindowMs})

\* C13: no 60 s window holds more than RequestsPerMinute admissions; while the budget
\* lasts, admit answers Admitted as long as the window that ends now holds fewer, and
\* otherwise Deferred with a positive retryAfterMs after which a slot is free.
C13_SlidingWindowCeiling ==
  /\ \A i \in 1..Len(admissions) : CountInWindow(admissions[i]) <= RequestsPerMinute
  /\ LET d == Admit(admissions, tokensUsed, tokensPerMonth, now, EstimatedTokens)
     IN tokensUsed + EstimatedTokens <= tokensPerMonth =>
          IF CountInWindow(now) < RequestsPerMinute
          THEN d.kind = "Admitted"
          ELSE /\ d.kind = "Deferred"
               /\ d.retryAfterMs > 0
               /\ CountInWindow(now + d.retryAfterMs) < RequestsPerMinute

\* C13: the window is full, admit answers Deferred and the worker waits for the slot
C13_Witness ==
  /\ CountInWindow(now) = RequestsPerMinute
  /\ Admit(admissions, tokensUsed, tokensPerMonth, now, EstimatedTokens).kind = "Deferred"
  /\ deferredUntil > now

\* C14: with a monthly budget of 0 no Summarizer call is ever made and no summary is
\* produced, and a request leaves the queue only by the RateLimitExhausted notice,
\* without being queued again.
C14_ZeroBudgetNeverSummarizes ==
  /\ [](tokensPerMonth = 0 => (inFlight = <<>> /\ admissions = <<>> /\ currentSummary = 0))
  /\ [][(tokensPerMonth = 0 /\ queue # <<>> /\ queue' # queue /\ Len(queue') <= Len(queue)) =>
          /\ queue' = Tail(queue)
          /\ lastNotification' = NoticeRateLimitExhausted]_vars

\* C14: the budget is 0 and the one request enqueued has ended in the notice
C14_Witness ==
  /\ tokensPerMonth = 0
  /\ queue = <<>>
  /\ lastNotification = NoticeRateLimitExhausted

\* The non-final requests queued or in flight
AutoRequests ==
  Len(SelectSeq(queue, LAMBDA r : r.priority = "auto"))
    + Len(SelectSeq(deferred, LAMBDA r : r.priority = "auto"))
    + Len(SelectSeq(inFlight, LAMBDA r : r.priority = "auto"))

C16_OneCallInFlight == Len(inFlight) <= 1

\* C16: an auto-triggered call is in flight while a final request waits at the head
\* of the queue and the RateLimiter would admit it
C16_Witness ==
  /\ Len(inFlight) = 1
  /\ inFlight[1].priority = "auto"
  /\ queue # <<>>
  /\ Head(queue).priority = "final"
  /\ now >= deferredUntil
  /\ Admit(admissions, tokensUsed, tokensPerMonth, now, EstimatedTokens).kind = "Admitted"

\* C21: within one stop sequence the storage step (initialising the storage, then
\* saveMeetingSession) is reached only after the wait for the speech source ended,
\* by the cleanup settling or by the 3000 ms timeout, and with no final summary
\* call outstanding; saveMeetingSession is called at most once per stop sequence
\* and is its last step: when it settles the handler ends.
C21_SaveIsLastStep ==
  /\ [](stopPc \in {"awaitStorage", "awaitSave"} =>
         /\ summaryArg = <<>>
         /\ stopTimedOut \/ forceStopPc[stopSession] = "none")
  /\ [][/\ (stopPc = "awaitSave" /\ stopPc' # stopPc) => (stopPc' = "idle" /\ ~isStoppingRef')
        /\ (stopPc' = "awaitSave" /\ stopPc # stopPc') =>
              (stopPc \in {"idle", "awaitStop", "awaitSummary", "awaitStorage"} /\ saveCount' = 1)]_vars

\* the cleanup hung, the 3000 ms timer ended the wait, the final summary call was
\* made and has settled, and the save is now in flight
C21_Witness ==
  /\ stopPc = "awaitSave"
  /\ stopTimedOut
  /\ forceStopPc[stopSession] = "awaitCleanup"
  /\ summaryCount = 1
  /\ saveCount = 1

\* C22: the stop sequence issues the final summarization request exactly when the
\* buffer holds at least one final segment: a request is issued only over a buffer
\* with a final segment, and the summary step is skipped only over a buffer without.
C22_FinalRequestIffFinalSegment ==
  [][/\ (stopPc' = "awaitSummary" /\ stopPc # "awaitSummary") => FinalSegments # <<>>
     /\ (stopPc \in {"idle", "awaitStop"} /\ stopPc' \in {"awaitStorage", "awaitSave"}) =>
           FinalSegments = <<>>]_vars

InterimSegments(segs) == LET Interim(s) == ~s.isFinal IN SelectSeq(segs, Interim)

\* C23: every reachable buffer holds at most one interim segment; delivering an
\* interim segment, whatever its id, leaves it as the only interim entry and leaves
\* the final segments as they were.
C23_SingleInterim ==
  /\ Len(InterimSegments(transcriptSegments)) <= 1
  /\ \A segment \in Segments :
        ~segment.isFinal =>
          LET after == DeliverSegment(transcriptSegments, segment)
          IN /\ InterimSegments(after) = <<segment>>
             /\ GetAllSegments(after) = GetAllSegments(transcriptSegments)

\* C23: the buffer holds a final segment followed by the interim segment of
\* another id, which the next interim segment will replace
C23_Witness ==
  /\ Len(transcriptSegments) = 2
  /\ transcriptSegments[1].isFinal
  /\ ~transcriptSegments[2].isFinal
  /\ transcriptSegments[1].id # transcriptSegments[2].id

\* C24: across the whole buffer, interim entries included, at most one entry exists
\* per id: after a segment is delivered, the delivered segment is the only entry of
\* its id, also when it is an interim re-emission of an id that is already final.
C24_OneEntryPerId ==
  /\ NoDuplicateIds(transcriptSegments)
  /\ \A segment \in Segments :
        LET after == DeliverSegment(transcriptSegments, segment)
        IN \A i \in EntriesOf(after, segment.id) : after[i] = segment

FinalIds(segs) == {segs[i].id : i \in {j \in 1..Len(segs) : segs[j].isFinal}}

\* C25: from the start of a session to the end of its stop sequence the set of ids
\* of the final segments in the buffer never shrinks: apart from the reset made when
\* a start succeeds, no step (segment delivery, pause, resume, stop, the transcript
\* view's clear action) removes a final segment.
C25_FinalsNeverShrink ==
  [][((isRecordingSession \/ isStoppingRef) /\ startPc' = startPc) =>
       FinalIds(transcriptSegments) \subseteq FinalIds(transcriptSegments')]_vars

\* C26: when startListening returns false (at once, or after the service refused)
\* or the service's start throws, the session is not reported as recording, no
\* "Recording session started" success is reported and the failure is notified.
C26_StartFailureEndsFailed ==
  [][LET Failed == /\ ~isRecordingSession'
                   /\ lastNotification' # NoticeStarted
                   /\ lastNotification'.severity = "error"
     IN /\ (StartRequest /\ StartListeningRefused) => Failed
        /\ \A s \in Sessions : \A outcome \in {"false", "throws"} :
              ServiceStartSettled(s, outcome) => Failed]_vars

\* forceStop dropped the service the hook had been initialised with
HandleDiscarded == isInitialized /\ speechServiceRef = "null"

\* C27: after a stop sequence that discarded the speech-service handle has ended,
\* a later start request is handed on to a speech service (the session initialises
\* again and can reach Listening) instead of being refused at once.
C27_StartAfterDiscardedHandle ==
  [][(StartRequest /\ HandleDiscarded /\ ~isListening /\ stopPc = "idle") =>
       \E s \in Sessions : startPc'[s] = "awaitService"]_vars

\* The non-final requests waiting in the queue that were never attempted
FreshAutoQueued ==
  Len(SelectSeq(queue, LAMBDA r : r.priority = "auto" /\ r.attempts = 0))

\* C28: a non-final request enters the queue only by a call of autoGenerateSummary
\* with auto generation enabled, while the buffer holds at least minSegments final
\* segments and at least minWords words in them and at least intervalSeconds have
\* passed since the last summarization attempt; a call with one of the four
\* conditions failing enqueues nothing.
C28_AutoTriggerThresholds ==
  [][/\ FreshAutoQueued' > FreshAutoQueued =>
          /\ Len(FinalSegments) >= MinSegments
          /\ WordCount(FinalSegments) >= MinWords
          /\ now - lastAttemptAt >= IntervalMs
          /\ \E config \in AutoConfigs :
                config.enableAutoGeneration /\ AutoGenerateSummary(config)
     /\ \A config \in AutoConfigs :
          (AutoGenerateSummary(config) /\ queue' # queue) =>
             /\ config.enableAutoGeneration
             /\ Len(FinalSegments) >= config.minSegments
             /\ WordCount(FinalSegments) >= config.minWords
             /\ now - lastAttemptAt >= config.intervalSeconds * 1000]_vars

\* C28: a non-final request waits in the queue, enqueued after an earlier attempt
\* once the interval had passed again, over a buffer that meets both thresholds
C28_Witness ==
  /\ FreshAutoQueued = 1
  /\ lastAttemptAt > 0
  /\ now - lastAttemptAt >= IntervalMs
  /\ Len(FinalSegments) >= MinSegments
  /\ WordCount(FinalSegments) >= MinWords

\* C29: the scheduler executes requests in queue order: the worker takes the head
\* of the queue; a non-final request is appended at the tail; a final request is
\* placed at the front, so no non-final request that still waits for its first
\* attempt stands before a final one; enqueueing leaves the call in flight alone.
C29_FinalJumpsQueue ==
  /\ [](\A i, j \in 1..Len(queue) :
          (i < j /\ queue[j].priority = "final") =>
             (queue[i].priority = "final" \/ queue[i].attempts > 0))
  /\ [][/\ (Len(queue') > Len(queue) /\ inFlight' = inFlight) =>
            \/ queue' = <<Request("final")>> \o queue
            \/ queue' = Append(queue, Request("auto"))
        /\ (Len(inFlight') > Len(inFlight) /\ deferred = <<>>) =>
            /\ queue' = Tail(queue)
            /\ inFlight'[Len(inFlight')].priority = Head(queue).priority
            /\ inFlight'[Len(inFlight')].attempts = Head(queue).attempts
        /\ Enqueue("final") => inFlight' = inFlight]_vars

\* C29: a final request was placed before the non-final request that had been
\* enqueued earlier, while the call in flight goes on
C29_Witness ==
  /\ Len(queue) = 2
  /\ queue[1] = Request("final")
  /\ queue[2] = Request("auto")
  /\ Len(inFlight) = 1

\* C30: a request the RateLimiter defers is kept by the worker without a notice;
\* it leaves the worker only as the next Summarizer call, no earlier than
\* retryAfterMs after the deferral and ahead of everything enqueued since; and once
\* the slot frees within the run it is admitted and executed.
C30_DeferredIsRetried ==
  /\ [][/\ (WorkerStart /\ Admit(admissions, tokensUsed, tokensPerMonth, now, EstimatedTokens).kind = "Deferred") =>
            /\ deferred' = <<Head(queue)>>
            /\ deferredUntil' =
                 now + Admit(admissions, tokensUsed, tokensPerMonth, now, EstimatedTokens).retryAfterMs
            /\ lastNotification' = lastNotification
        /\ (deferred # <<>> /\ deferred' # deferred) =>
            /\ now >= deferredUntil
            /\ Len(inFlight') = 1
            /\ inFlight'[1].priority = deferred[1].priority
            /\ inFlight'[1].attempts = deferred[1].attempts
            /\ queue' = queue
            /\ lastNotification' = lastNotification
        /\ deferred # <<>> => lastNotification' = lastNotification]_vars
  /\ (deferred # <<>> /\ deferredUntil <= MaxTicks * TickMs) ~> (deferred = <<>> /\ inFlight # <<>>)

\* C30: a deferred request was retried after its delay, ahead of a final request
\* enqueued during the wait, and is now in flight
C30_Witness ==
  /\ deferred = <<>>
  /\ deferredUntil > 0
  /\ now >= deferredUntil
  /\ Len(inFlight) = 1
  /\ inFlight[1].priority = "auto"
  /\ queue # <<>>
  /\ Head(queue).priority = "final"
  /\ lastAttemptAt = now

\* C31: a window is handed to the Summarizer at most MaxAttempts times; the failure
\* of its last attempt drops it with a notice that is not an error and leaves the
\* queued requests in place, and the idle worker can take the next of them: a
\* window that keeps failing does not block the pipeline.
C31_FailingWindowDropped ==
  /\ [](/\ \A i \in 1..Len(inFlight) : inFlight[i].attempts < MaxAttempts
        /\ \A i \in 1..Len(queue) : queue[i].attempts < MaxAttempts
        /\ (queue # <<>> /\ inFlight = <<>> /\ deferred = <<>>) => ENABLED WorkerStart)
  /\ [][(Len(inFlight) = 1 /\ inFlight' = <<>> /\ inFlight[1].attempts = MaxAttempts - 1
           /\ currentSummary' = currentSummary /\ SummarizerSettled(1, FALSE)) =>
          /\ queue' = queue
          /\ deferred' = deferred
          /\ lastNotification' = NoticeSummaryDropped
          /\ lastNotification'.severity = "warning"]_vars

\* C31: a window was dropped after its last attempt failed, and the request that
\* waited behind it is now in flight
C31_Witness ==
  /\ lastNotification = NoticeSummaryDropped
  /\ Len(inFlight) = 1
  /\ inFlight[1].attempts = 0
  /\ Len(admissions) = MaxAttempts + 1

\* C32: the response of a summarization call that belongs to an earlier session
\* than the current one is ignored: a step changes the current summary only to a
\* summary of the current session, and a settling final call of an earlier
\* session leaves the buffer of the current session alone.
C32_StaleResponseIgnored ==
  [][/\ currentSummary' # currentSummary => currentSummary' = sessionNo
     /\ \A outcome \in {"summary", "null", "rejected"} : \A committed \in BOOLEAN :
          FinalSummarySettled(outcome, committed) => transcriptSegments' = transcriptSegments]_vars

\* The admissions granted to the sessions of S, added up
RECURSIVE ReservedIn(_)
ReservedIn(S) ==
  IF S = {} THEN 0
  ELSE LET s == CHOOSE x \in S : TRUE IN reservedBy[s] + ReservedIn(S \ {s})

\* C33: with the sessions of the process asking one RequestBudget in any order, no
\* 60 s window holds more than RequestsPerMinute admissions and the reserved tokens
\* never exceed the monthly budget; every admission is accounted once, to the
\* session that was granted it.
C33_SharedBudget ==
  /\ \A i \in 1..Len(admissions) : CountInWindow(admissions[i]) <= RequestsPerMinute
  /\ tokensUsed <= tokensPerMonth
  /\ tokensUsed = Len(admissions) * EstimatedTokens
  /\ ReservedIn(Sessions) = Len(admissions)

\* C33: both sessions were granted admissions, the budget is spent and the session
\* that asks next is refused
C33_Witness ==
  /\ reservedBy[1] > 0
  /\ reservedBy[2] > 0
  /\ tokensUsed = tokensPerMonth
  /\ Admit(admissions, tokensUsed, tokensPerMonth, now, EstimatedTokens).kind = "Rejected"

\* C34: every notice handed to addNotification carries a severity out of info,
\* warning and error, and a message that is not empty.
C34_NoticeSeverityAndMessage ==
  lastNotification # NoNotice =>
    /\ lastNotification.severity \in {"info", "warning", "error"}
    /\ lastNotification.message # ""

\* The segments of a list, as a set
SegmentSet(segs) == {segs[i] : i \in 1..Len(segs)}

\* C35: when a new session was started while a stop sequence is in flight, the
\* final summarization request and the record handed to saveMeetingSession still
\* hold the final segments the stopped session had when its stop began, not the
\* reset or refilled buffer of the new session.
C35_RecordOfStoppedSession ==
  (sessionNo > stopSession /\ stopSession > 0) =>
    /\ stopPc = "awaitSummary" => SegmentSet(stopSnapshot) \subseteq SegmentSet(summaryArg)
    /\ stopPc = "awaitSave" => SegmentSet(stopSnapshot) \subseteq SegmentSet(sessionData.transcript)

\* C36: the stopping flag is set only while a stop sequence is executing, so that
\* outside a stop sequence the stop request of a recording session is accepted.
C36_StoppingFlagOnlyDuringStop ==
  /\ isStoppingRef => stopPc \in {"awaitStop", "awaitSummary", "awaitStorage", "awaitSave"}
  /\ (isRecordingSession /\ stopPc \notin {"awaitStop", "awaitSummary", "awaitStorage", "awaitSave"})
       => StopGuard

\* C37: in every state of the transcription hook isPaused implies isListening,
\* whatever the order of the service's status callbacks, of stopListening and of
\* forceStop.
C37_PausedImpliesListening == isPaused => isListening

C39_UnmountReleasesService ==
  /\ [][\A throws \in BOOLEAN :
          (HookUnmount(throws) /\ speechServiceRef # "null" /\ ~throws) =>
             (serviceState' = "stopped" /\ unmountPc' = "timer")]_vars
  /\ [][(unmountPc = "timer" /\ unmountPc' = "unmounted") => serviceState' = "cleaning"]_vars
  /\ (unmountPc = "timer") ~> (serviceState = "cleaning")

\* C40: a further call of initialize() made while the first still awaits
\* speechService.initialize() returns without constructing a service, and a
\* service is never installed over one that is installed already.
C40_SingleSpeechService ==
  [][/\ \A rendered \in BOOLEAN :
          (InitializeAgain(rendered) /\ mountPc = "transcription") => reInitPc' = "none"
     /\ (HookInitializeSettled(TRUE) \/ ReInitializeSettled(TRUE)) => speechServiceRef = "null"]_vars

====
